---- MODULE Spec2Model ----
(***************************************************************************)
(* Model of api_main.py: a FastAPI service over a PostgreSQL database with *)
(* three tables (user_points, mentor_assignments, daily_checkins).         *)
(*                                                                         *)
(* Every `await database.<statement>` is one atomic step of the database;  *)
(* a handler with two statements (add_points, manage_mentor_assignment)    *)
(* is suspended between them and other requests may run in between.        *)
(* A statement may fail (connection loss, constraint violation); a failed  *)
(* statement leaves the tables unchanged (each statement is its own        *)
(* transaction).                                                           *)
(***************************************************************************)
EXTENDS Integers, Sequences, FiniteSets, TLC

\* ------------------------------------------------------------- bounds
\* total number of HTTP requests received in a run
MaxReq == 3

\* ---------------------------------------------------- program constants
\* range of the PostgreSQL INT column user_points.points
IntMax == 2147483647
IntMin == -IntMax - 1

\* ------------------------------------------------------- input domains
Users == {1, 2}
AddVals == {1, 2}
SetVals == {0, 7}
Mentors == {1}
Mentees == {1, 2}
Pairs == Mentors \X Mentees
\* checkin_type strings, as sequences of characters
CheckinTypes ==
    { <<"G", "O", "O", "D">>, <<"b", "a", "d">>, <<"g", "r", "e", "a", "t">> }

\* database contents left by earlier runs of the process
InitPoints == { <<>>, (1 :> IntMax) }
InitAssignments == { <<>>, << <<1, 1>> >> }

VARIABLES
    startup,             \* position of startup_event / state of the process
    user_points,         \* table user_points: user_id -> points (DOMAIN = rows)
    mentor_assignments,  \* table mentor_assignments: sequence of <<mentor, mentee>>
    daily_checkins,      \* table daily_checkins: sequence of rows
    checkin_seq,         \* the SERIAL sequence of daily_checkins.checkin_id
    inflight,            \* requests suspended between two database statements
    last,                \* the response most recently sent
    nreq,                \* number of requests received
    hist                 \* history of the run (auxiliary, read by no handler)

vars ==
    << startup, user_points, mentor_assignments, daily_checkins, checkin_seq,
       inflight, last, nreq, hist >>

\* ------------------------------------------------------------ helpers
RECURSIVE SeqToSet(_)
SeqToSet(s) == IF s = <<>> THEN {} ELSE {Head(s)} \cup SeqToSet(Tail(s))

UpperCase ==
    << "A", "B", "C", "D", "E", "F", "G", "H", "I", "J", "K", "L", "M",
       "N", "O", "P", "Q", "R", "S", "T", "U", "V", "W", "X", "Y", "Z" >>
LowerCase ==
    << "a", "b", "c", "d", "e", "f", "g", "h", "i", "j", "k", "l", "m",
       "n", "o", "p", "q", "r", "s", "t", "u", "v", "w", "x", "y", "z" >>

\* str.lower() on one character
LowerChar(c) ==
    IF \E i \in 1..Len(UpperCase) : UpperCase[i] = c
    THEN LowerCase[CHOOSE i \in 1..Len(UpperCase) : UpperCase[i] = c]
    ELSE c

\* data.checkin_type.lower()
lower(s) == [i \in 1..Len(s) |-> LowerChar(s[i])]

\* ['good', 'bad']
ValidCheckinTypes == { <<"g", "o", "o", "d">>, <<"b", "a", "d">> }

\* points + :points leaves the INT column: PostgreSQL raises "integer out of range"
AddOutOfRange(tbl, u, p) ==
    /\ u \in DOMAIN tbl
    /\ IF p > 0 THEN tbl[u] > IntMax - p ELSE tbl[u] < IntMin - p

InIntRange(v) == IntMin <= v /\ v <= IntMax

\* the database is usable only once startup_event has connected and created the tables
Connected == startup = "ready"
\* the application accepts requests once startup_event has returned normally
Serving == startup \in {"ready", "no_db"}

\* outcomes of one database statement: TRUE = executed, FALSE = raised
DbOutcomes == IF Connected THEN {TRUE, FALSE} ELSE {FALSE}

\* ------------------------------------------------------ SQL statements
\* a lost update: the row is overwritten with the increment
AddUpsertOverwrite(tbl, u, p) == p

\* INSERT ... ON CONFLICT (user_id) DO UPDATE SET points = user_points.points + :points
AddUpsertValue(tbl, u, p) == IF u \in DOMAIN tbl THEN tbl[u] + p ELSE p

\* ON CONFLICT (user_id) DO NOTHING: an existing row keeps its balance
SetUpsertKeep(tbl, u, p) == IF u \in DOMAIN tbl THEN tbl[u] ELSE p

\* INSERT ... ON CONFLICT (user_id) DO UPDATE SET points = :points
SetUpsertValue(tbl, u, p) == p

\* write one row of user_points
PutRow(tbl, u, v) == [x \in (DOMAIN tbl) \cup {u} |-> IF x = u THEN v ELSE tbl[x]]

\* SELECT points FROM user_points WHERE user_id = :user_id, and lines 104-107
GetPointsValue(tbl, u) == IF u \in DOMAIN tbl THEN tbl[u] ELSE 0

\* SELECT mentor_id FROM mentor_assignments WHERE mentor_id = .. AND mentee_id = ..
PairExists(tbl, pr) == \E i \in 1..Len(tbl) : tbl[i] = pr

\* a DELETE whose WHERE clause matches no row
DeleteNothing(tbl, pr) == tbl

\* DELETE FROM mentor_assignments WHERE mentor_id = .. AND mentee_id = ..
DeletePair(tbl, pr) == SelectSeq(tbl, LAMBDA x : x # pr)

\* INSERT INTO mentor_assignments (mentor_id, mentee_id) VALUES (..)
InsertPair(tbl, pr) == Append(tbl, pr)

\* INSERT INTO daily_checkins (user_id, checkin_type) VALUES (..)
InsertCheckin(tbl, id, u, t) ==
    Append(tbl, [checkin_id |-> id, user_id |-> u, checkin_type |-> t])

\* --------------------------------------------------------- responses
NoResp ==
    [ id |-> 0, kind |-> "none", a |-> 0, b |-> 0, text |-> <<>>,
      status |-> 0, translated |-> TRUE, value |-> 0, message |-> "", rows |-> <<>>,
      \* auxiliary
      fault |-> FALSE, duplicate |-> FALSE, wrote |-> FALSE, own |-> 0,
      pre |-> FALSE, overlap |-> FALSE, after_set |-> FALSE, set_value |-> 0 ]

NoHist ==
    [ had_row |-> {}, add_sum |-> [u \in Users |-> 0], add_failed |-> {}, set_seen |-> {},
      last_set |-> [u \in Users |-> [is_set |-> FALSE, v |-> 0]],
      init_pairs |-> {}, flips |-> [pr \in Pairs |-> 0], racy |-> {},
      startup_failed |-> FALSE ]

Init ==
    /\ startup = "boot"
    /\ user_points \in InitPoints
    /\ mentor_assignments \in InitAssignments
    /\ daily_checkins = <<>>
    /\ checkin_seq = 1
    /\ inflight = {}
    /\ last = NoResp
    /\ nreq = 0
    /\ hist = [NoHist EXCEPT !.had_row = DOMAIN user_points,
                             !.init_pairs = SeqToSet(mentor_assignments)]

\* ------------------------------------------------------ startup_event
\* await database.connect(), lines 37-42: a failure is printed and the handler returns
StartupConnect ==
    /\ startup = "boot"
    /\ \E ok \in BOOLEAN :
        IF ok
        THEN /\ startup' = "connected"
             /\ hist' = hist
        ELSE /\ startup' = "no_db"
             /\ hist' = [hist EXCEPT !.startup_failed = TRUE]
    /\ UNCHANGED << user_points, mentor_assignments, daily_checkins, checkin_seq,
                    inflight, last, nreq >>

NextStartup(s) ==
    CASE s = "connected" -> "points_ready"
      [] s = "points_ready" -> "mentor_ready"
      [] s = "mentor_ready" -> "ready"

\* the three CREATE TABLE IF NOT EXISTS statements, lines 45-74: not guarded by
\* try/except, so a failure leaves startup_event as an exception and the
\* application start is aborted
StartupCreateTable ==
    /\ startup \in {"connected", "points_ready", "mentor_ready"}
    /\ \E ok \in BOOLEAN :
        IF ok
        THEN /\ startup' = NextStartup(startup)
             /\ hist' = hist
        ELSE /\ startup' = "aborted"
             /\ hist' = [hist EXCEPT !.startup_failed = TRUE]
    /\ UNCHANGED << user_points, mentor_assignments, daily_checkins, checkin_seq,
                    inflight, last, nreq >>

\* ------------------------------------------------------------ requests
Accepting == Serving /\ nreq < MaxReq

Request(kind, a, b) == [NoResp EXCEPT !.id = nreq + 1, !.kind = kind, !.a = a, !.b = b]

Suspended(kind, a, b, own, pre) ==
    [ id |-> nreq + 1, kind |-> kind, a |-> a, b |-> b, own |-> own, pre |-> pre,
      overlap |-> \E q \in inflight : q.kind = kind /\ q.a = a /\ (kind = "toggle" => q.b = b) ]

\* the requests in flight, after one more request on the same row is suspended
Overlapped(kind, a, b) ==
    { IF q.kind = kind /\ q.a = a /\ (kind = "toggle" => q.b = b)
      THEN [q EXCEPT !.overlap = TRUE] ELSE q : q \in inflight }

\* add_points, line 92: the upsert
add_points_write(u, p) ==
    /\ Accepting
    /\ nreq' = nreq + 1
    /\ \E ok \in DbOutcomes :
        LET v == AddUpsertValue(user_points, u, p) IN
        IF ok /\ InIntRange(p) /\ ~AddOutOfRange(user_points, u, p)
        THEN /\ user_points' = PutRow(user_points, u, v)
             /\ inflight' = Overlapped("add", u, p) \cup {Suspended("add", u, p, v, FALSE)}
             /\ last' = last
             /\ hist' = [hist EXCEPT !.last_set[u] = [is_set |-> FALSE, v |-> 0]]
        ELSE /\ last' = [Request("add", u, p) EXCEPT
                            !.status = 500, !.fault = TRUE,
                            !.message = "Error updating points in database."]
             /\ hist' = [hist EXCEPT !.add_failed = @ \cup {u}]
             /\ UNCHANGED << user_points, inflight >>
    /\ UNCHANGED << startup, mentor_assignments, daily_checkins, checkin_seq >>

\* add_points, lines 93-97: new_total_data = await get_points(data.user_id)
add_points_read(r) ==
    /\ r \in inflight
    /\ r.kind = "add"
    /\ inflight' = inflight \ {r}
    /\ \E ok \in DbOutcomes :
        LET base == [NoResp EXCEPT !.id = r.id, !.kind = "add", !.a = r.a, !.b = r.b,
                                   !.wrote = TRUE, !.own = r.own, !.overlap = r.overlap] IN
        IF ok
        THEN /\ last' = [base EXCEPT !.status = 200,
                                     !.value = GetPointsValue(user_points, r.a)]
             /\ hist' = [hist EXCEPT !.add_sum[r.a] = @ + r.b]
        ELSE /\ last' = [base EXCEPT !.status = 500, !.fault = TRUE,
                                     !.message = "Error updating points in database."]
             /\ hist' = [hist EXCEPT !.add_failed = @ \cup {r.a}]
    /\ UNCHANGED << startup, user_points, mentor_assignments, daily_checkins,
                    checkin_seq, nreq >>

\* a get_points that creates the missing row (INSERT ... ON CONFLICT DO NOTHING
\* before the SELECT)
get_points_creates_row(u) ==
    /\ Accepting
    /\ nreq' = nreq + 1
    /\ \E ok \in DbOutcomes :
        IF ok
        THEN /\ user_points' = IF u \in DOMAIN user_points THEN user_points
                                                          ELSE PutRow(user_points, u, 0)
             /\ last' = [Request("get", u, 0) EXCEPT
                            !.status = 200, !.value = GetPointsValue(user_points, u),
                            !.after_set = hist.last_set[u].is_set,
                            !.set_value = hist.last_set[u].v]
        ELSE /\ last' = [Request("get", u, 0) EXCEPT
                            !.status = 500, !.translated = FALSE, !.fault = TRUE]
             /\ UNCHANGED user_points
    /\ UNCHANGED << startup, mentor_assignments, daily_checkins,
                    checkin_seq, inflight, hist >>

\* GET /get_points/{user_id}, lines 100-107: no try/except around fetch_one
get_points(u) ==
    /\ Accepting
    /\ nreq' = nreq + 1
    /\ \E ok \in DbOutcomes :
        IF ok
        THEN last' = [Request("get", u, 0) EXCEPT
                         !.status = 200, !.value = GetPointsValue(user_points, u),
                         !.after_set = hist.last_set[u].is_set,
                         !.set_value = hist.last_set[u].v]
        ELSE last' = [Request("get", u, 0) EXCEPT
                         !.status = 500, !.translated = FALSE, !.fault = TRUE]
    /\ UNCHANGED << startup, user_points, mentor_assignments, daily_checkins,
                    checkin_seq, inflight, hist >>

\* POST /set_points, lines 109-121
set_points(u, p) ==
    /\ Accepting
    /\ nreq' = nreq + 1
    /\ \E ok \in DbOutcomes :
        LET v == SetUpsertValue(user_points, u, p) IN
        IF ok /\ InIntRange(v)
        THEN /\ user_points' = PutRow(user_points, u, v)
             /\ last' = [Request("set", u, p) EXCEPT
                            !.status = 200, !.wrote = TRUE, !.message = "User points set"]
             /\ hist' = [hist EXCEPT !.set_seen = @ \cup {u},
                                     !.last_set[u] = [is_set |-> TRUE, v |-> p]]
        ELSE /\ last' = [Request("set", u, p) EXCEPT
                            !.status = 500, !.fault = TRUE,
                            !.message = "Error setting points in database."]
             /\ hist' = [hist EXCEPT !.set_seen = @ \cup {u}]
             /\ UNCHANGED user_points
    /\ UNCHANGED << startup, mentor_assignments, daily_checkins, checkin_seq, inflight >>

\* POST /mentor-assignments, lines 130-133: the SELECT of the pair
manage_mentor_assignment_select(pr) ==
    /\ Accepting
    /\ nreq' = nreq + 1
    /\ \E ok \in DbOutcomes :
        IF ok
        THEN LET s == Suspended("toggle", pr[1], pr[2], 0, PairExists(mentor_assignments, pr)) IN
             /\ inflight' = Overlapped("toggle", pr[1], pr[2]) \cup {s}
             /\ last' = last
             /\ hist' = [hist EXCEPT !.racy = IF s.overlap THEN @ \cup {pr} ELSE @]
        ELSE /\ last' = [Request("toggle", pr[1], pr[2]) EXCEPT
                            !.status = 500, !.fault = TRUE,
                            !.message = "An unexpected database error occurred."]
             /\ UNCHANGED << inflight, hist >>
    /\ UNCHANGED << startup, user_points, mentor_assignments, daily_checkins, checkin_seq >>

\* POST /mentor-assignments, lines 135-148: DELETE when the pair was found, INSERT
\* otherwise; the primary key (mentor_id, mentee_id) rejects a second INSERT
manage_mentor_assignment_write(r) ==
    /\ r \in inflight
    /\ r.kind = "toggle"
    /\ inflight' = inflight \ {r}
    /\ \E ok \in DbOutcomes :
        LET pr == <<r.a, r.b>>
            base == [NoResp EXCEPT !.id = r.id, !.kind = "toggle", !.a = r.a, !.b = r.b,
                                   !.pre = r.pre, !.overlap = r.overlap]
            failed == [base EXCEPT !.status = 500,
                                   !.message = "An unexpected database error occurred."]
        IN
        IF ~ok
        THEN /\ last' = [failed EXCEPT !.fault = TRUE]
             /\ UNCHANGED << mentor_assignments, hist >>
        ELSE IF r.pre
        THEN /\ mentor_assignments' = DeletePair(mentor_assignments, pr)
             /\ last' = [base EXCEPT !.status = 200, !.wrote = TRUE,
                                     !.message = "Mentor unassigned successfully"]
             /\ hist' = [hist EXCEPT !.flips[pr] = @ + 1]
        ELSE IF PairExists(mentor_assignments, pr)
        THEN /\ last' = [failed EXCEPT !.duplicate = TRUE]
             /\ UNCHANGED << mentor_assignments, hist >>
        ELSE /\ mentor_assignments' = InsertPair(mentor_assignments, pr)
             /\ last' = [base EXCEPT !.status = 200, !.wrote = TRUE,
                                     !.message = "Mentor assigned successfully"]
             /\ hist' = [hist EXCEPT !.flips[pr] = @ + 1]
    /\ UNCHANGED << startup, user_points, daily_checkins, checkin_seq, nreq >>

\* GET /mentor-assignments, lines 151-160
get_all_assignments ==
    /\ Accepting
    /\ nreq' = nreq + 1
    /\ \E ok \in DbOutcomes :
        IF ok
        THEN last' = [Request("list", 0, 0) EXCEPT !.status = 200, !.rows = mentor_assignments]
        ELSE last' = [Request("list", 0, 0) EXCEPT
                         !.status = 500, !.fault = TRUE,
                         !.message = "Failed to retrieve assignments from database."]
    /\ UNCHANGED << startup, user_points, mentor_assignments, daily_checkins,
                    checkin_seq, inflight, hist >>

\* line 165: data.checkin_type.lower() not in ['good', 'bad']
CheckinRejected(t) == lower(t) \notin ValidCheckinTypes

\* the type stored as it was sent
CheckinStoredRaw(t) == t

\* line 173: the value bound to :checkin_type
CheckinStored(t) == lower(t)

\* POST /log-checkin, lines 163-177
log_checkin(u, t) ==
    /\ Accepting
    /\ nreq' = nreq + 1
    /\ LET req == [Request("checkin", u, 0) EXCEPT !.text = t] IN
       IF CheckinRejected(t)
       THEN /\ last' = [req EXCEPT !.status = 400,
                                   !.message = "Invalid checkin_type. Must be 'good' or 'bad'."]
            /\ UNCHANGED << daily_checkins, checkin_seq >>
       ELSE \E ok \in DbOutcomes :
            IF ok
            THEN /\ daily_checkins' =
                        InsertCheckin(daily_checkins, checkin_seq, u, CheckinStored(t))
                 /\ checkin_seq' = checkin_seq + 1
                 /\ last' = [req EXCEPT !.status = 200, !.wrote = TRUE,
                                        !.message = "Successfully logged check-in"]
            ELSE /\ last' = [req EXCEPT !.status = 500, !.fault = TRUE,
                                        !.message = "Failed to log check-in."]
                 /\ UNCHANGED << daily_checkins, checkin_seq >>
    /\ UNCHANGED << startup, user_points, mentor_assignments, inflight, hist >>

\* GET /, lines 180-182
root ==
    /\ Accepting
    /\ nreq' = nreq + 1
    /\ last' = [Request("health", 0, 0) EXCEPT !.status = 200,
                                               !.message = "Mentor API is running"]
    /\ UNCHANGED << startup, user_points, mentor_assignments, daily_checkins,
                    checkin_seq, inflight, hist >>

AddPointsWrite == \E u \in Users, p \in AddVals : add_points_write(u, p)
AddPointsRead == \E r \in inflight : add_points_read(r)
GetPoints == \E u \in Users : get_points(u)
SetPoints == \E u \in Users, p \in SetVals : set_points(u, p)
ToggleSelect == \E pr \in Pairs : manage_mentor_assignment_select(pr)
ToggleWrite == \E r \in inflight : manage_mentor_assignment_write(r)
LogCheckin == \E u \in Users, t \in CheckinTypes : log_checkin(u, t)

Next ==
    \/ StartupConnect
    \/ StartupCreateTable
    \/ AddPointsWrite
    \/ AddPointsRead
    \/ GetPoints
    \/ SetPoints
    \/ ToggleSelect
    \/ ToggleWrite
    \/ get_all_assignments
    \/ LogCheckin
    \/ root

Spec == Init /\ [][Next]_vars

\* the handlers that read or write user_points
NextPoints ==
    \/ StartupConnect
    \/ StartupCreateTable
    \/ AddPointsWrite
    \/ AddPointsRead
    \/ GetPoints
    \/ SetPoints

SpecPoints == Init /\ [][NextPoints]_vars

\* the handlers that read or write mentor_assignments
NextMentor ==
    \/ StartupConnect
    \/ StartupCreateTable
    \/ ToggleSelect
    \/ ToggleWrite
    \/ get_all_assignments

SpecMentor == Init /\ [][NextMentor]_vars

\* the handlers that write daily_checkins
NextCheckin ==
    \/ StartupConnect
    \/ StartupCreateTable
    \/ LogCheckin

SpecCheckin == Init /\ [][NextCheckin]_vars

\* ------------------------------------------------------------ properties
AddInFlight(u) == \E r \in inflight : r.kind = "add" /\ r.a = u

\* C1: for a user that started with no row and received no SetPoints, once every
\* AddPoints(u, p_i) received has completed successfully (sequentially or
\* interleaved), GetPoints(u) is the sum of the p_i
NoLostUpdates ==
    \A u \in Users :
        ( /\ u \notin hist.had_row
          /\ u \notin hist.set_seen
          /\ u \notin hist.add_failed
          /\ ~AddInFlight(u) )
        => (IF u \in DOMAIN user_points THEN user_points[u] ELSE 0) = hist.add_sum[u]

\* three AddPoints(u, 1) that overlapped have all completed successfully
NoLostUpdatesWitness ==
    /\ last.kind = "add" /\ last.status = 200 /\ last.overlap /\ last.id = 3
    /\ last.a \notin hist.had_row \cup hist.set_seen \cup hist.add_failed
    /\ ~AddInFlight(last.a)
    /\ hist.add_sum[last.a] = 3
    /\ user_points[last.a] = 3

\* C2: a successful AddPoints answers with the total its own upsert produced
NewTotalIsOwnTotal ==
    (last.kind = "add" /\ last.status = 200) => last.value = last.own

\* C3: no toggle answers with an error caused by inserting a pair already present
ToggleNeverDuplicateError ==
    ~(last.kind = "toggle" /\ last.status = 500 /\ last.duplicate)

\* the rows ListMentorAssignments returns
Listed(pr) == pr \in SeqToSet(mentor_assignments)

Odd(n) == n % 2 = 1

\* C4: a toggle that overlapped no other toggle of its pair flips the pair and says
\* so; after k such toggles of a pair the pair is present iff its initial presence
\* and the parity of k differ
ToggleFlips ==
    /\ (last.kind = "toggle" /\ ~last.overlap) =>
          /\ (last.status = 200) <=> ~last.fault
          /\ last.status = 200 =>
                IF last.pre
                THEN /\ last.message = "Mentor unassigned successfully"
                     /\ ~Listed(<<last.a, last.b>>)
                ELSE /\ last.message = "Mentor assigned successfully"
                     /\ Listed(<<last.a, last.b>>)
    /\ \A pr \in Pairs :
          pr \notin hist.racy =>
             (Listed(pr) <=> ((pr \in hist.init_pairs) # Odd(hist.flips[pr])))

\* the third of three successive toggles of a pair that started absent
ToggleFlipsWitness ==
    /\ last.kind = "toggle" /\ last.status = 200 /\ ~last.overlap
    /\ <<last.a, last.b>> \notin hist.init_pairs \cup hist.racy
    /\ hist.flips[<<last.a, last.b>>] = 3
    /\ last.message = "Mentor assigned successfully"
    /\ Listed(<<last.a, last.b>>)

\* C5: GetPoints(u) right after a successful SetPoints(u, v), with no write to u in
\* between, returns v
SetThenGet ==
    (last.kind = "get" /\ last.status = 200 /\ last.after_set) => last.value = last.set_value

\* SetPoints(u, 7) over an existing balance, then GetPoints(u)
SetThenGetWitness ==
    /\ last.kind = "get" /\ last.status = 200 /\ last.after_set
    /\ last.a \in hist.had_row
    /\ last.set_value = 7 /\ last.value = 7

Responded(kind) == last'.id # last.id /\ last'.kind = kind

\* C6: get_points answers with the stored balance, or 0 without a row, and changes
\* no table (also when add_points calls it for the new total)
GetPointsIsPureRead ==
    [][ (Responded("get") \/ (Responded("add") /\ last'.wrote)) =>
          /\ user_points' = user_points
          /\ mentor_assignments' = mentor_assignments
          /\ daily_checkins' = daily_checkins
          /\ checkin_seq' = checkin_seq
          /\ last'.status = 200 =>
                last'.value = (IF last'.a \in DOMAIN user_points
                               THEN user_points[last'.a] ELSE 0) ]_vars

\* GetPoints(u) answered 0 for a user without a row, and there is still no row
GetPointsIsPureReadWitness ==
    /\ last.kind = "get" /\ last.status = 200 /\ last.value = 0
    /\ last.a \notin DOMAIN user_points

IsPrefix(s, t) == Len(s) <= Len(t) /\ \A i \in 1..Len(s) : s[i] = t[i]

\* C7: LogCheckin succeeds exactly when lowercase(t) is "good" or "bad" (and the
\* INSERT executed); a success appends one row holding lowercase(t); a rejected t
\* answers 400 and writes nothing; rows are never changed or removed
LogCheckinContract ==
    /\ [](\A i \in 1..Len(daily_checkins) :
              daily_checkins[i].checkin_type \in { <<"g", "o", "o", "d">>, <<"b", "a", "d">> })
    /\ [][ /\ IsPrefix(daily_checkins, daily_checkins')
           /\ Responded("checkin") =>
                LET t == last'.text
                    ok == lower(t) \in { <<"g", "o", "o", "d">>, <<"b", "a", "d">> }
                IN  /\ (last'.status = 200) <=> (ok /\ ~last'.fault)
                    /\ ~ok => last'.status = 400
                    /\ last'.status = 200 =>
                          /\ Len(daily_checkins') = Len(daily_checkins) + 1
                          /\ daily_checkins'[Len(daily_checkins')].checkin_type = lower(t)
                          /\ daily_checkins'[Len(daily_checkins')].user_id = last'.a
                    /\ last'.status # 200 => daily_checkins' = daily_checkins ]_vars

\* LogCheckin(u, "GOOD") succeeded and its row holds "good"
LogCheckinContractWitness ==
    /\ last.kind = "checkin" /\ last.status = 200
    /\ last.text = <<"G", "O", "O", "D">>
    /\ Len(daily_checkins) >= 2
    /\ daily_checkins[Len(daily_checkins)].checkin_type = <<"g", "o", "o", "d">>

\* C8: a failed database statement is answered by the handler's own HTTP 500
FailuresTranslated ==
    last.fault => (last.translated /\ last.status = 500)

\* C9: after a failed startup no request is handled
StartupFailureIsFatal ==
    hist.startup_failed => (nreq = 0 /\ last.kind = "none")

\* C10: an AddPoints answered with 500 has not changed the balance
AddErrorMeansNoChange ==
    (last.kind = "add" /\ last.status = 500) => ~last.wrote

====
